---- MODULE Spec2Model ----
(***************************************************************************)
(* Model of the Key User Interface matcher of cgdb, lib/kui/src/kui.c:     *)
(* map sets with their incremental longest-prefix matcher, the matcher     *)
(* context (pushback buffer, character source, findkey passes),            *)
(* kui_getkey's outer loop and kui_cangetkey (Spec), registering and       *)
(* deregistering maps in a map set (RegSpec), and the manager, whose       *)
(* normal_keys context reads terminal_keys through kui_callback            *)
(* (ManagerSpec).                                                          *)
(*                                                                         *)
(* A key sequence (int *, zero terminated) is a TLA+ sequence of non-zero  *)
(* tokens; At reads the terminator at index intlen.  A list iterator is an *)
(* index 1..Len(list), Len(list)+1 being std_list_end.                     *)
(***************************************************************************)
EXTENDS Integers, Sequences, FiniteSets, TLC

\* ------------------------------------------------------------------ bounds
MaxKeyLen == 2
MaxMaps == 2
MaxSrcLen == 3

\* int bufmax[1024], the tokens one pass of kui_findkey can hold
BufmaxSize == 1024

\* ------------------------------------------------- key sequence utilities
\* s[i] of a zero terminated int array (0-based); the terminator is 0
At(s, i) == IF i < Len(s) THEN s[i + 1] ELSE 0

RECURSIVE intcmpFrom(_, _, _)
intcmpFrom(one, two, i) ==
    IF At(one, i) = 0 /\ At(two, i) = 0 THEN 0
    ELSE IF At(one, i) = 0 THEN -1
    ELSE IF At(two, i) = 0 THEN 1
    ELSE IF At(one, i) < At(two, i) THEN -1
    ELSE IF At(one, i) > At(two, i) THEN 1
    ELSE intcmpFrom(one, two, i + 1)

intcmp(one, two) == intcmpFrom(one, two, 0)

\* the index a loop stops at: the least member of a set of indices
Least(S) == CHOOSE m \in S : \A j \in S : m <= j

\* the indices below n at which the loop of intncmp returns
intncmpStops(one, two, n) ==
    {i \in 0..n - 1 : At(one, i) = 0 \/ At(two, i) = 0 \/ At(one, i) # At(two, i)}

\* the loop runs to the first such index, or to n; keys of a thousand
\* tokens are compared, so the loop is not unrolled as a recursion
intncmp(one, two, n) ==
    IF intncmpStops(one, two, n) = {} THEN 0
    ELSE LET i == Least(intncmpStops(one, two, n))
         IN  IF At(one, i) = 0 /\ At(two, i) = 0 THEN 0
             ELSE IF At(one, i) = 0 THEN -1
             ELSE IF At(two, i) = 0 THEN 1
             ELSE IF At(one, i) < At(two, i) THEN -1
             ELSE 1

\* while ( val[length] != 0 ) ++length: the index of the first terminator
intlen(val) == Least({length \in 0..Len(val) : At(val, length) = 0})

\* ------------------------------------------------------------ std_list
NULL == [null |-> TRUE]

std_list_begin(list) == 1
std_list_end(list) == Len(list) + 1
std_list_next(iter) == iter + 1

\* the data of a node; the end node of a list carries no data
std_list_get_data(list, iter) ==
    IF iter \in 1..Len(list) THEN list[iter] ELSE NULL

\* kui_map_get_literal_key: -1 on a NULL map
kui_map_get_literal_key(map) ==
    IF map = NULL THEN [rc |-> -1, key |-> <<>>]
    ELSE [rc |-> 0, key |-> map.literal_key]

\* ------------------------------------------------------------- map set
\* matcher state of struct kui_map_set; map_iter_found 0 is NULL
kui_ms_reset_state(list) ==
    [map_iter |-> std_list_begin(list),
     map_state |-> "STILL_LOOKING",
     is_found |-> FALSE,
     map_iter_found |-> 0]

kui_ms_get_state(s) == s.map_state

\* a finalize that forgets the latch
finalize_without_latch(s) == s

kui_ms_finalize_state(s) ==
    IF s.is_found
    THEN [s EXCEPT !.map_state = "FOUND", !.map_iter = s.map_iter_found]
    ELSE s

\* the for loop of kui_ms_update_state: the iterator and state it ends with
RECURSIVE SearchLoop(_, _, _, _, _)
SearchLoop(list, int_matched, iter, key, position) ==
    IF iter = std_list_end(list)
    THEN [map_iter |-> iter, map_state |-> "STILL_LOOKING"]
    ELSE LET int_cur == list[iter].literal_key
             strncmp_return_value == intncmp(int_matched, int_cur, position)
         IN  IF strncmp_return_value # 0
                \/ (strncmp_return_value = 0 /\ At(int_cur, position) > key)
             THEN [map_iter |-> iter, map_state |-> "NOT_FOUND"]
             ELSE IF strncmp_return_value = 0 /\ At(int_cur, position) = key
             THEN [map_iter |-> iter, map_state |-> "STILL_LOOKING"]
             ELSE SearchLoop(list, int_matched, std_list_next(iter), key, position)

\* rule 1 dropped: a match latches whatever the length of the key
latch_any_length(list, s, position) ==
    LET latched == [s EXCEPT !.is_found = TRUE, !.map_iter_found = s.map_iter]
        iter == std_list_next(s.map_iter)
    IN  IF iter = std_list_end(list)
        THEN [latched EXCEPT !.map_state = "FOUND"]
        ELSE IF intncmp(list[iter].literal_key, list[s.map_iter].literal_key,
                        position + 1) # 0
        THEN [latched EXCEPT !.map_state = "FOUND"]
        ELSE latched

\* rule 1 and rule 2 at the end of kui_ms_update_state
FoundOrLooking(list, s, position) ==
    LET int_cur == list[s.map_iter].literal_key
        cur_length == intlen(int_cur)
        latched == [s EXCEPT !.is_found = TRUE, !.map_iter_found = s.map_iter]
        iter == std_list_next(s.map_iter)
    IN  IF cur_length # position + 1 THEN s
        ELSE IF iter = std_list_end(list)
        THEN [latched EXCEPT !.map_state = "FOUND"]
        ELSE IF intncmp(list[iter].literal_key, int_cur, position + 1) # 0
        THEN [latched EXCEPT !.map_state = "FOUND"]
        ELSE latched

kui_ms_update_state(list, s, key, position) ==
    IF position < 0 \/ key < 0 THEN [rc |-> -1, s |-> s]
    ELSE IF s.map_state # "STILL_LOOKING" THEN [rc |-> -1, s |-> s]
    ELSE LET first == kui_map_get_literal_key(std_list_get_data(list, s.map_iter))
         IN  IF first.rc = -1 THEN [rc |-> -1, s |-> s]
             ELSE LET w == SearchLoop(list, first.key, s.map_iter, key, position)
                      s1 == [s EXCEPT !.map_iter = w.map_iter,
                                      !.map_state = w.map_state]
                  IN  IF w.map_state = "NOT_FOUND" THEN [rc |-> 0, s |-> s1]
                      ELSE IF w.map_iter = std_list_end(list)
                      THEN [rc |-> 0, s |-> [s1 EXCEPT !.map_state = "NOT_FOUND"]]
                      ELSE [rc |-> 0, s |-> FoundOrLooking(list, s1, position)]

\* ------------------------------------------------------- matcher context
VARIABLES
    kui_map_set_list,  \* kuictx.kui_map_set_list: the map_list of each map set
    ms_state,          \* matcher state of each map set
    buffer,            \* kuictx.buffer: the pushback buffer
    src,               \* the values the callback may return at each next read
    pc,                \* where kui_getkey / kui_findkey stands
    position,          \* kui_findkey's position
    bufmax,            \* bufmax[0..position] as written in this pass
    was_map_found,     \* *was_map_found
    the_map_found,     \* the map the last completed pass applied
    pass_end,          \* the last pass: "none", "running", "done", "error"
    timed_out,         \* the pass left its loop because kui_findchar returned 0
    rest,              \* the buffer as kui_update_buffer found it
    out,               \* the values kui_getkey returned so far
    reads,             \* the values the source returned so far
    cangetkey,         \* what kui_cangetkey returned since the last kui_getkey
    term_buffer,       \* the buffer of the manager's terminal_keys context
    ms_log             \* the calls of kui_ms_register_map / _deregister_map

vars == <<kui_map_set_list, ms_state, buffer, src, pc, position, bufmax,
          was_map_found, the_map_found, pass_end, timed_out, rest, out,
          reads, cangetkey, term_buffer, ms_log>>

\* what a read of a never written int on the stack can yield
Indeterminate == {-1, 0, 1}

\* kui_findchar: the head of the buffer if there is one, otherwise what
\* the callback returns
kui_findchar(buf, callback) ==
    IF Len(buf) > 0
    THEN [key |-> Head(buf), buffer |-> Tail(buf)]
    ELSE [key |-> callback, buffer |-> buf]

kui_reset_state_data(lists) ==
    [i \in 1..Len(lists) |-> kui_ms_reset_state(lists[i])]

\* the loop of kui_update_each_list from map set i on
RECURSIVE UpdateFrom(_, _, _, _, _)
UpdateFrom(lists, sts, i, key, pos) ==
    IF i > Len(lists) THEN [rc |-> 0, sts |-> sts]
    ELSE IF kui_ms_get_state(sts[i]) # "NOT_FOUND"
    THEN LET u == kui_ms_update_state(lists[i], sts[i], key, pos)
         IN  IF u.rc = -1 THEN [rc |-> -1, sts |-> sts]
             ELSE UpdateFrom(lists, [sts EXCEPT ![i] = u.s], i + 1, key, pos)
    ELSE UpdateFrom(lists, sts, i + 1, key, pos)

kui_update_each_list(lists, sts, key, pos) == UpdateFrom(lists, sts, 1, key, pos)

\* a kui_should_continue_looking that ends the pass after every token
stop_looking(sts) == FALSE

\* a kui_should_continue_looking that never ends the pass
keep_looking(sts) == TRUE

kui_should_continue_looking(sts) ==
    \E i \in 1..Len(sts) : kui_ms_get_state(sts[i]) = "STILL_LOOKING"

kui_update_list_state(sts) ==
    [i \in 1..Len(sts) |-> kui_ms_finalize_state(sts[i])]

\* the loop of kui_was_map_found from map set i on: a later FOUND overwrites
RECURSIVE WasFoundFrom(_, _, _, _)
WasFoundFrom(lists, sts, i, acc) ==
    IF i > Len(lists) THEN acc
    ELSE IF kui_ms_get_state(sts[i]) = "FOUND"
    THEN WasFoundFrom(lists, sts, i + 1,
             [was_map_found |-> TRUE,
              the_map_found |-> std_list_get_data(lists[i], sts[i].map_iter)])
    ELSE WasFoundFrom(lists, sts, i + 1, acc)

\* a kui_was_map_found that keeps the first FOUND map set
RECURSIVE FirstFoundFrom(_, _, _)
FirstFoundFrom(lists, sts, i) ==
    IF i > Len(lists) THEN [was_map_found |-> FALSE, the_map_found |-> NULL]
    ELSE IF kui_ms_get_state(sts[i]) = "FOUND"
    THEN [was_map_found |-> TRUE,
          the_map_found |-> std_list_get_data(lists[i], sts[i].map_iter)]
    ELSE FirstFoundFrom(lists, sts, i + 1)

was_map_found_first(lists, sts) == FirstFoundFrom(lists, sts, 1)

kui_was_map_found(lists, sts) ==
    WasFoundFrom(lists, sts, 1, [was_map_found |-> FALSE, the_map_found |-> NULL])

\* bufmax[j]; a slot the pass never wrote holds whatever the stack held
BufmaxAt(bm, j, uninit) == IF j < Len(bm) THEN bm[j + 1] ELSE uninit

\* bufmax[pos] = key: no test of pos against the size of the array; a store
\* past its end either lands in the memory behind it or stops the process
BufmaxStore(pos) == IF pos < BufmaxSize THEN {TRUE} ELSE {TRUE, FALSE}

\* the same loop running upwards: the tokens end up reversed
RECURSIVE PrependUp(_, _, _, _)
PrependUp(buf, arr, from, i) ==
    IF from >= i
    THEN PrependUp(<<At(arr, i)>> \o buf, arr, from, i + 1)
    ELSE buf

\* for ( j = from ; j >= i ; --j ) std_list_prepend ( buffer, arr[j] )
RECURSIVE PrependDown(_, _, _, _)
PrependDown(buf, arr, from, i) ==
    IF from >= i
    THEN PrependDown(<<At(arr, from)>> \o buf, arr, from - 1, i)
    ELSE buf

\* a kui_update_buffer that also puts bufmax[0] back when no map was found
update_buffer_from_zero(buf, map, map_was_found, pos, bm, key, uninit) ==
    LET i == IF map_was_found THEN intlen(map.literal_key) ELSE 0
        key1 == IF map_was_found THEN key ELSE BufmaxAt(bm, 0, uninit)
        extra == PrependDown(buf, bm, pos, i)
    IN  [key |-> key1,
         buffer |-> IF map_was_found
                    THEN PrependDown(extra, map.literal_value,
                                     intlen(map.literal_value) - 1, 0)
                    ELSE extra]

kui_update_buffer(buf, map, map_was_found, pos, bm, key, uninit) ==
    LET i == IF map_was_found THEN intlen(map.literal_key) ELSE 1
        key1 == IF map_was_found THEN key ELSE BufmaxAt(bm, 0, uninit)
        extra == PrependDown(buf, bm, pos, i)
    IN  [key |-> key1,
         buffer |-> IF map_was_found
                    THEN PrependDown(extra, map.literal_value,
                                     intlen(map.literal_value) - 1, 0)
                    ELSE extra]

\* a kui_getkey that returns after one pass
getkey_single_pass(key, map_found) == "return"

\* what kui_getkey does with the result of a pass
kui_getkey(key, map_found) ==
    IF key = -1 THEN "return"
    ELSE IF map_found THEN "again"
    ELSE "return"

\* a kui_cangetkey that always reports a token
cangetkey_always(buf) == 1

\* kui_cangetkey: std_list_length of the buffer, -1 for a list that is no list
kui_cangetkey(buf) ==
    LET length == Len(buf)
    IN  IF length = -1 THEN -1
        ELSE IF length > 0 THEN 1
        ELSE 0

\* ------------------------------------------------------- configurations
\* the input alphabet of the enumerated contexts, and a token no key holds
Tok == 1..2
OutTok == CHOOSE t \in 1..3 : t \notin Tok

KeySeqs == UNION {[1..n -> Tok] : n \in 1..MaxKeyLen}

\* the map registered under key k: the rest of the key, then OutTok
MapOf(k) == [literal_key |-> k, literal_value |-> Tail(k) \o <<OutTok>>]

\* the map a second map set registers under key k
AltMapOf(k) == [literal_key |-> k, literal_value |-> <<OutTok, OutTok>>]

\* a map_list is sorted by kui_map_compare_callback, without equal keys
IsSortedList(list) ==
    \A i \in 1..Len(list) - 1 :
        intcmp(list[i].literal_key, list[i + 1].literal_key) < 0

MapLists ==
    {list \in UNION {[1..n -> {MapOf(k) : k \in KeySeqs}] : n \in 0..MaxMaps} :
        IsSortedList(list)}

SingleLists == {list \in MapLists : Len(list) <= 1}
AltLists == {<<>>} \cup {<<AltMapOf(k)>> : k \in KeySeqs}

\* what the callback returns: a token or 0 (no data in time); the last
\* scripted read may also fail (-1)
SrcVals(i) == IF i = MaxSrcLen THEN {-1, 0} \cup Tok ELSE {0} \cup Tok

Enumerated ==
    [lists : {<<>>} \cup {<<l>> : l \in MapLists}
                    \cup {<<l1, l2>> : l1 \in SingleLists, l2 \in AltLists},
     src : {[i \in 1..MaxSrcLen |-> SrcVals(i)]}]

M(k, v) == [literal_key |-> k, literal_value |-> v]
Script(s) == <<>> \o [i \in 1..Len(s) |-> {s[i]}]

\* a key of BufmaxSize + 1 tokens
LongKey == <<>> \o [i \in 1..BufmaxSize + 1 |-> 1]

\* the scenarios of the specification, section 8; letters a..h are 1..8
Scenarios ==
    { \* 1: a -> X, abc -> Y, input ad
      [lists |-> << <<M(<<1>>, <<21>>), M(<<1, 2, 3>>, <<22>>)>> >>,
       src |-> Script(<<1, 4>>)],
      \* 2: the same maps, input abcd
      [lists |-> << <<M(<<1>>, <<21>>), M(<<1, 2, 3>>, <<22>>)>> >>,
       src |-> Script(<<1, 2, 3, 4>>)],
      \* 3: a -> b, b -> c, input a
      [lists |-> << <<M(<<1>>, <<2>>), M(<<2>>, <<3>>)>> >>,
       src |-> Script(<<1>>)],
      \* 4: abc -> Y, input ab, then no data
      [lists |-> << <<M(<<1, 2, 3>>, <<22>>)>> >>,
       src |-> Script(<<1, 2, 0, 0>>)],
      \* 5: map set A a -> X, map set B a -> Y, input a
      [lists |-> << <<M(<<1>>, <<21>>)>>, <<M(<<1>>, <<22>>)>> >>,
       src |-> Script(<<1>>)],
      \* map set A a -> X, map set B abc -> Y, input ab
      [lists |-> << <<M(<<1>>, <<21>>)>>, <<M(<<1, 2, 3>>, <<22>>)>> >>,
       src |-> Script(<<1, 2>>)],
      \* ab -> xyz, abcdf -> n, and q -> abcdefgh to fill the buffer
      [lists |-> << <<M(<<1, 2>>, <<11, 12, 13>>), M(<<1, 2, 3, 4, 6>>, <<14>>),
                      M(<<15>>, <<1, 2, 3, 4, 5, 6, 7, 8>>)>> >>,
       src |-> Script(<<15>>)],
      \* abc -> Y, and q -> abdd to fill the buffer
      [lists |-> << <<M(<<1, 2, 3>>, <<22>>), M(<<15>>, <<1, 2, 4, 4>>)>> >>,
       src |-> Script(<<15>>)],
      \* a -> a
      [lists |-> << <<M(<<1>>, <<1>>)>> >>,
       src |-> Script(<<1>>)],
      \* a -> b, b -> a
      [lists |-> << <<M(<<1>>, <<2>>), M(<<2>>, <<1>>)>> >>,
       src |-> Script(<<1>>)],
      \* a -> X, and no map set at all, in front of a source that fails with -2
      [lists |-> << <<M(<<1>>, <<21>>)>> >>,
       src |-> Script(<<-2>>)],
      [lists |-> <<>>,
       src |-> Script(<<-2>>)],
      \* a key one token longer than bufmax, and the input that types it
      [lists |-> << <<M(LongKey, <<22>>)>> >>,
       src |-> Script(LongKey)] }

Configs == Enumerated \cup Scenarios

\* ---------------------------------------------------------------- actions
\* a context after kui_create and kui_add_map_set, in front of a source
InitContext(lists, source) ==
    /\ kui_map_set_list = lists
    /\ ms_state = kui_reset_state_data(lists)
    /\ src = source
    /\ buffer = <<>>
    /\ pc = "idle"
    /\ position = -1
    /\ bufmax = <<>>
    /\ was_map_found = FALSE
    /\ the_map_found = NULL
    /\ pass_end = "none"
    /\ timed_out = FALSE
    /\ rest = <<>>
    /\ out = <<>>
    /\ reads = <<>>
    /\ cangetkey = <<>>
    /\ term_buffer = <<>>
    /\ ms_log = <<>>

Init == \E c \in Configs : InitContext(c.lists, c.src)

\* the entry of kui_findkey: its locals and kui_reset_state_data
EnterFindkey ==
    /\ ms_state' = kui_reset_state_data(kui_map_set_list)
    /\ position' = -1
    /\ bufmax' = <<>>
    /\ was_map_found' = FALSE
    /\ pass_end' = "running"
    /\ timed_out' = FALSE
    /\ pc' = "findchar"
    /\ cangetkey' = <<>>
    /\ UNCHANGED <<kui_map_set_list, buffer, src, the_map_found, rest, out, reads,
                   term_buffer, ms_log>>

\* a call of kui_getkey, made while the buffer or the source holds something
GetKey ==
    /\ pc = "idle"
    /\ Len(buffer) > 0 \/ Len(src) > 0
    /\ EnterFindkey

\* kui_getkey's do-while runs kui_findkey again
Restart ==
    /\ pc = "restart"
    /\ EnterFindkey

\* one turn of kui_findkey's main loop, the callback returning callback if
\* kui_findchar calls it
FindkeyTurn(callback) ==
        LET c == kui_findchar(buffer, callback)
            pos == position + 1
            u == kui_update_each_list(kui_map_set_list, ms_state, c.key, pos)
        IN  /\ buffer' = c.buffer
            /\ IF c.key = 0
               THEN /\ pc' = "finalize"
                    /\ timed_out' = TRUE
                    /\ UNCHANGED <<position, bufmax, ms_state, pass_end, out>>
               ELSE /\ position' = pos
                    /\ bufmax' = Append(bufmax, c.key)
                    /\ timed_out' = FALSE
                    /\ \E stored \in BufmaxStore(pos) :
                        IF ~stored
                        THEN /\ pc' = "crashed"
                             /\ UNCHANGED <<ms_state, pass_end, out>>
                        ELSE /\ ms_state' = u.sts
                             /\ IF u.rc = -1
                                THEN /\ pc' = "idle"
                                     /\ pass_end' = "error"
                                     /\ out' = Append(out, -1)
                                ELSE /\ pc' = IF kui_should_continue_looking(u.sts)
                                              THEN "findchar" ELSE "finalize"
                                     /\ UNCHANGED <<pass_end, out>>

\* a turn of the loop in a context whose callback reads the source
FindkeyLoop ==
    /\ pc = "findchar"
    /\ \E callback \in (IF Len(buffer) > 0 THEN {0}
                        ELSE IF Len(src) > 0 THEN Head(src) ELSE {0}) :
        /\ FindkeyTurn(callback)
        /\ IF Len(buffer) > 0
           THEN UNCHANGED <<src, reads>>
           ELSE /\ src' = IF Len(src) > 0 THEN Tail(src) ELSE src
                /\ reads' = Append(reads, callback)
    /\ UNCHANGED <<kui_map_set_list, was_map_found, the_map_found, rest,
                   cangetkey, term_buffer, ms_log>>

\* the end of kui_findkey, and what kui_getkey does with the result
FindkeyEnd ==
    /\ pc = "finalize"
    /\ LET sts == kui_update_list_state(ms_state)
           f == kui_was_map_found(kui_map_set_list, sts)
       IN  \E uninit \in (IF ~f.was_map_found /\ position = -1
                          THEN Indeterminate ELSE {0}) :
             LET b == kui_update_buffer(buffer, f.the_map_found, f.was_map_found,
                                        position, bufmax, 0, uninit)
             IN  /\ ms_state' = sts
                 /\ was_map_found' = f.was_map_found
                 /\ the_map_found' = f.the_map_found
                 /\ rest' = buffer
                 /\ buffer' = b.buffer
                 /\ pass_end' = "done"
                 /\ IF kui_getkey(b.key, f.was_map_found) = "again"
                    THEN pc' = "restart" /\ out' = out
                    ELSE pc' = "idle" /\ out' = Append(out, b.key)
    /\ UNCHANGED <<kui_map_set_list, src, position, bufmax, timed_out, reads,
                   cangetkey, term_buffer, ms_log>>

\* a call of kui_cangetkey between two calls of kui_getkey
CanGetKey ==
    /\ pc = "idle"
    /\ cangetkey' = <<kui_cangetkey(buffer)>>
    /\ UNCHANGED <<kui_map_set_list, ms_state, buffer, src, pc, position, bufmax,
                   was_map_found, the_map_found, pass_end, timed_out, rest, out,
                   reads, term_buffer, ms_log>>

Next == GetKey \/ Restart \/ FindkeyLoop \/ FindkeyEnd \/ CanGetKey

Spec == Init /\ [][Next]_vars

\* ------------------------------------------- registering and deregistering
\* the calls made on the map set
MaxCalls == 3

kui_map_compare_callback(a, b) == intcmp(a.literal_key, b.literal_key)

\* std_list_find with kui_map_compare_callback: the first node whose data
\* compares equal to data, or the end of the list
std_list_find(list, data) ==
    Least({i \in 1..Len(list) : kui_map_compare_callback(list[i], data) = 0}
          \cup {std_list_end(list)})

\* the list without the node at iter
std_list_remove(list, iter) ==
    SubSeq(list, 1, iter - 1) \o SubSeq(list, iter + 1, Len(list))

\* std_list_insert_sorted with kui_map_compare_callback: data goes in front
\* of the first node that compares greater
std_list_insert_sorted(list, data) ==
    LET iter == Least({i \in 1..Len(list) :
                          kui_map_compare_callback(list[i], data) > 0}
                      \cup {std_list_end(list)})
    IN  SubSeq(list, 1, iter - 1) \o <<data>> \o SubSeq(list, iter, Len(list))

\* kui_map_create, the strings given as the token sequences they stand for
kui_map_create(key_data, value_data) == M(key_data, value_data)

\* a kui_ms_register_map that leaves the old map in the list
register_without_remove(map_list, key_data, value_data) ==
    LET map == kui_map_create(key_data, value_data)
    IN  [rc |-> 0,
         map_list |-> std_list_insert_sorted(map_list, map)]

\* a kui_ms_register_map that puts the new map at the end of the list
register_at_end(map_list, key_data, value_data) ==
    LET map == kui_map_create(key_data, value_data)
        iter == std_list_find(map_list, map)
        removed == IF iter # std_list_end(map_list)
                   THEN std_list_remove(map_list, iter) ELSE map_list
    IN  [rc |-> 0, map_list |-> Append(removed, map)]

kui_ms_register_map(map_list, key_data, value_data) ==
    LET map == kui_map_create(key_data, value_data)
        iter == std_list_find(map_list, map)
        removed == IF iter # std_list_end(map_list)
                   THEN std_list_remove(map_list, iter) ELSE map_list
    IN  [rc |-> 0,
         map_list |-> std_list_insert_sorted(removed, map)]

\* std_list_find ( map_list, key, kui_map_compare_callback ) hands the string
\* key to a function that reads it as a struct kui_map: when there is a node
\* to compare with, each comparison yields anything, so the search ends at
\* any node or at the end, or the process is stopped (0)
DeregisterFind(map_list) ==
    IF Len(map_list) = 0 THEN {std_list_end(map_list)}
    ELSE 0..std_list_end(map_list)

\* kui_ms_deregister_map, std_list_find having returned iter
kui_ms_deregister_map(map_list, iter) ==
    IF iter = std_list_begin(map_list)
    THEN [rc |-> -2, map_list |-> map_list]
    ELSE IF iter = std_list_end(map_list)
    THEN [rc |-> -1, map_list |-> map_list]
    ELSE [rc |-> 0, map_list |-> std_list_remove(map_list, iter)]

\* the keys and values the calls are made with
RegKeys == {<<1>>, <<1, 2>>, <<2>>}
RegValues == {<<OutTok>>, <<1>>}

RegInit == InitContext(<< <<>> >>, <<>>)

MsCall(op, key_data, value_data, ret) ==
    [op |-> op, key |-> key_data, value |-> value_data,
     before |-> kui_map_set_list[1], ret |-> ret]

MsFrame ==
    UNCHANGED <<ms_state, buffer, src, position, bufmax, was_map_found,
                the_map_found, pass_end, timed_out, rest, out, reads,
                cangetkey, term_buffer>>

RegisterMap ==
    /\ pc = "idle"
    /\ Len(ms_log) < MaxCalls
    /\ \E key_data \in RegKeys, value_data \in RegValues :
        LET r == kui_ms_register_map(kui_map_set_list[1], key_data, value_data)
        IN  /\ kui_map_set_list' = <<r.map_list>>
            /\ ms_log' = Append(ms_log,
                                MsCall("register", key_data, value_data, <<r.rc>>))
    /\ pc' = pc
    /\ MsFrame

DeregisterMap ==
    /\ pc = "idle"
    /\ Len(ms_log) < MaxCalls
    /\ \E key_data \in RegKeys, iter \in DeregisterFind(kui_map_set_list[1]) :
        IF iter = 0
        THEN /\ pc' = "crashed"
             /\ ms_log' = Append(ms_log, MsCall("deregister", key_data, <<>>, <<>>))
             /\ UNCHANGED kui_map_set_list
        ELSE LET r == kui_ms_deregister_map(kui_map_set_list[1], iter)
             IN  /\ kui_map_set_list' = <<r.map_list>>
                 /\ ms_log' = Append(ms_log,
                                     MsCall("deregister", key_data, <<>>, <<r.rc>>))
                 /\ pc' = pc
    /\ MsFrame

RegNext == RegisterMap \/ DeregisterMap

RegSpec == RegInit /\ [][RegNext]_vars

\* ------------------------------------------------------------ the manager
\* bytes of the terminal and the key token of the table of terminal keys
ESC == 27
LBRACKET == 91
UPPER_A == 65
LOWER_X == 120
CGDB_KEY_UP == 10001

\* the map set kui_term_get_terminal_mappings hands to terminal_keys
TerminalMappings ==
    << <<M(<<ESC, LBRACKET, UPPER_A>>, <<CGDB_KEY_UP>>)>> >>

\* the next value of a scripted source, 0 when the script is over
SourceHead(source) ==
    IF Len(source) > 0 THEN CHOOSE v \in Head(source) : TRUE ELSE 0

\* io_getchar: the next byte, or 0 after waiting ms for one
io_getchar(source) ==
    [key |-> SourceHead(source),
     src |-> IF Len(source) > 0 THEN Tail(source) ELSE source]

\* io_data_ready: 1 when a byte arrives within ms; a wait without one is over
io_data_ready(source) ==
    IF SourceHead(source) # 0
    THEN [ready |-> 1, src |-> source]
    ELSE [ready |-> 0, src |-> IF Len(source) > 0 THEN Tail(source) ELSE source]

\* kui_findkey as one computation, for a context that is read through a
\* callback: what its main loop leaves when it ends
LoopEnd(rc, sts, buf, source, pos, bm, rd) ==
    [rc |-> rc, sts |-> sts, buffer |-> buf, src |-> source, position |-> pos,
     bufmax |-> bm, reads |-> rd]

\* the main loop in a context with the map sets lists that reads source
\* with io_getchar; LoopRead is a turn after kui_findchar, LoopUpdated a
\* turn after kui_update_each_list
RECURSIVE findkey_loop(_, _, _, _, _, _, _)
LoopUpdated(lists, u, c, source, pos, bm, rd) ==
    IF u.rc # -1 /\ kui_should_continue_looking(u.sts)
    THEN findkey_loop(lists, u.sts, c.buffer, source, pos, bm, rd)
    ELSE LoopEnd(u.rc, u.sts, c.buffer, source, pos, bm, rd)

LoopRead(lists, sts, c, source, pos, bm, rd) ==
    IF c.key = 0
    THEN LoopEnd(0, sts, c.buffer, source, pos, bm, rd)
    ELSE LoopUpdated(lists, kui_update_each_list(lists, sts, c.key, pos + 1),
                     c, source, pos + 1, Append(bm, c.key), rd)

findkey_loop(lists, sts, buf, source, pos, bm, rd) ==
    IF Len(buf) > 0
    THEN LoopRead(lists, sts, kui_findchar(buf, 0), source, pos, bm, rd)
    ELSE LoopRead(lists, sts, kui_findchar(buf, io_getchar(source).key),
                  io_getchar(source).src, pos, bm,
                  Append(rd, io_getchar(source).key))

\* what kui_findkey returns and leaves, l being what its loop left, f what
\* kui_was_map_found found and b what kui_update_buffer did
FindkeyReturn(l, f, b) ==
    IF l.rc = -1
    THEN [key |-> -1, map_found |-> FALSE, buffer |-> l.buffer, src |-> l.src,
          reads |-> l.reads]
    ELSE [key |-> b.key, map_found |-> f.was_map_found, buffer |-> b.buffer,
          src |-> l.src, reads |-> l.reads]

FindkeyFound(l, f, uninit) ==
    FindkeyReturn(l, f,
        kui_update_buffer(l.buffer, f.the_map_found, f.was_map_found,
                          l.position, l.bufmax, 0, uninit))

FindkeyLooped(lists, l, uninit) ==
    FindkeyFound(l, kui_was_map_found(lists, kui_update_list_state(l.sts)),
                 uninit)

kui_findkey(lists, buf, source, uninit) ==
    FindkeyLooped(lists,
        findkey_loop(lists, kui_reset_state_data(lists), buf, source,
                     -1, <<>>, <<>>),
        uninit)

\* kui_getkey as one computation: passes until one applies no map
RECURSIVE getkey_passes(_, _, _, _, _)
GetkeyPass(lists, r, uninit, rd) ==
    IF kui_getkey(r.key, r.map_found) = "again"
    THEN getkey_passes(lists, r.buffer, r.src, uninit, rd \o r.reads)
    ELSE [key |-> r.key, buffer |-> r.buffer, src |-> r.src,
          reads |-> rd \o r.reads]

getkey_passes(lists, buf, source, uninit, rd) ==
    GetkeyPass(lists, kui_findkey(lists, buf, source, uninit), uninit, rd)

\* a callback that hands on the bytes of the terminal as char_callback does
callback_raw_bytes(kctx_buffer, source, uninit) ==
    [key |-> io_getchar(source).key, buffer |-> kctx_buffer,
     src |-> io_getchar(source).src, reads |-> <<io_getchar(source).key>>]

\* a callback that calls kui_getkey without asking io_data_ready
callback_without_ready(kctx_buffer, source, uninit) ==
    getkey_passes(TerminalMappings, kctx_buffer, source, uninit, <<>>)

\* kui_callback, kctx being terminal_keys with the buffer kctx_buffer: the
\* key it returns, and the buffer, the source and the reads it leaves;
\* io_data_ready is asked only when kui_cangetkey returned 0
kui_callback(kctx_buffer, source, uninit) ==
    IF kui_cangetkey(kctx_buffer) = -1
    THEN [key |-> -1, buffer |-> kctx_buffer, src |-> source, reads |-> <<>>]
    ELSE IF \/ kui_cangetkey(kctx_buffer) = 1
            \/ kui_cangetkey(kctx_buffer) = 0 /\ io_data_ready(source).ready = 1
    THEN getkey_passes(TerminalMappings, kctx_buffer, source, uninit, <<>>)
    ELSE [key |-> 0, buffer |-> kctx_buffer, src |-> io_data_ready(source).src,
          reads |-> <<0>>]

\* the map sets kui_manager_add_map_set gave normal_keys: none, a macro
\* x -> <UP>, a macro <UP> -> x
UserMapSets ==
    {<<>>, << <<M(<<LOWER_X>>, <<CGDB_KEY_UP>>)>> >>,
     << <<M(<<CGDB_KEY_UP>>, <<LOWER_X>>)>> >>}

\* what arrives at the terminal: bytes, 0 for a pause longer than a timeout
ByteStreams == [1..MaxSrcLen -> {0, ESC, LBRACKET, UPPER_A, LOWER_X}]

\* kui_manager_create: the existing variables are normal_keys
ManagerInit ==
    \E lists \in UserMapSets, s \in ByteStreams : InitContext(lists, Script(s))

\* kui_manager_getkey
ManagerGetKey ==
    /\ pc = "idle"
    /\ Len(buffer) > 0 \/ Len(term_buffer) > 0 \/ Len(src) > 0
    /\ EnterFindkey

\* a turn of the loop of kui_findkey in normal_keys, whose callback is
\* kui_callback on terminal_keys
ManagerFindkeyLoop ==
    /\ pc = "findchar"
    /\ \E uninit \in Indeterminate :
        LET r == kui_callback(term_buffer, src, uninit)
        IN  /\ FindkeyTurn(r.key)
            /\ IF Len(buffer) > 0
               THEN UNCHANGED <<src, reads, term_buffer>>
               ELSE /\ src' = r.src
                    /\ reads' = reads \o r.reads
                    /\ term_buffer' = r.buffer
    /\ UNCHANGED <<kui_map_set_list, was_map_found, the_map_found, rest,
                   cangetkey, ms_log>>

ManagerNext == ManagerGetKey \/ Restart \/ ManagerFindkeyLoop \/ FindkeyEnd

ManagerSpec == ManagerInit /\ [][ManagerNext]_vars

\* ----------------------------------------------------------------- claims
IsPrefix(k, t) == Len(k) <= Len(t) /\ SubSeq(t, 1, Len(k)) = k

Last(s) == s[Len(s)]

\* a pass has just ended in kui_update_buffer and nothing ran since
PassDone == pass_end = "done" /\ pc \in {"idle", "restart"}

OneMapSet == Len(kui_map_set_list) = 1

\* the maps of the only map set whose key is a prefix of the tokens consumed
Candidates == {m \in {kui_map_set_list[1][i] : i \in 1..Len(kui_map_set_list[1])} :
                  IsPrefix(m.literal_key, bufmax)}

Longest(ms) == CHOOSE m \in ms :
                  \A n \in ms : Len(n.literal_key) <= Len(m.literal_key)

ScenarioPrefix == << <<M(<<1>>, <<21>>), M(<<1, 2, 3>>, <<22>>)>> >>

\* C1: with one map set and no timeout in the pass, the pass stops only
\* when no key extends the tokens it consumed, it applies the map with the
\* longest key that is a prefix of them, if there is one, and the tokens
\* consumed beyond that key are at the head of the buffer after the value;
\* with a -> X, abc -> Y, input ad gives X, d and input abcd gives Y, d.
C1_LongestMatch ==
    /\ (PassDone /\ OneMapSet /\ ~timed_out) =>
          /\ \A i \in 1..Len(kui_map_set_list[1]) :
                ~(IsPrefix(bufmax, kui_map_set_list[1][i].literal_key)
                  /\ Len(kui_map_set_list[1][i].literal_key) > Len(bufmax))
          /\ was_map_found = (Candidates # {})
          /\ was_map_found =>
                /\ the_map_found = Longest(Candidates)
                /\ LET v == Len(the_map_found.literal_value)
                       k == Len(the_map_found.literal_key)
                   IN  SubSeq(buffer, v + 1, v + Len(bufmax) - k)
                          = SubSeq(bufmax, k + 1, Len(bufmax))
    /\ (kui_map_set_list = ScenarioPrefix /\ pc = "idle" /\ Len(out) = 2
        /\ reads = <<1, 4>>) => out = <<21, 4>>
    /\ (kui_map_set_list = ScenarioPrefix /\ pc = "idle" /\ Len(out) = 2
        /\ reads = <<1, 2, 3, 4>>) => out = <<22, 4>>

\* a pass read beyond a key that matched and fell back to it
C1_Witness ==
    /\ PassDone /\ OneMapSet /\ ~timed_out /\ was_map_found
    /\ Len(bufmax) > Len(the_map_found.literal_key)
    /\ Len(kui_map_set_list[1]) > 1

ScenarioPartial == << <<M(<<1, 2, 3>>, <<22>>)>> >>

\* C2: a kui_getkey whose pass found the buffer empty and got 0 from the
\* callback at its first read returns 0; with abc -> Y and input ab followed
\* by no data the calls return a, b, 0.
C2_NoDataReturnsZero ==
    /\ (pc = "idle" /\ pass_end = "done" /\ position = -1) => Last(out) = 0
    /\ (kui_map_set_list = ScenarioPartial /\ pc = "idle" /\ Len(out) = 3)
          => out = <<1, 2, 0>>

ScenarioRecursive == << <<M(<<1>>, <<2>>), M(<<2>>, <<3>>)>> >>

\* C3: kui_getkey returns only after a pass that applied no map; after a
\* pass that applied one it runs kui_findkey again, on a buffer that starts
\* with the map's value; with a -> b, b -> c, input a gives c.
C3_MacroPassNotReturned ==
    /\ (PassDone /\ pc = "idle") => ~was_map_found
    /\ (PassDone /\ was_map_found) =>
          pc = "restart" /\ IsPrefix(the_map_found.literal_value, buffer)
    /\ (kui_map_set_list = ScenarioRecursive /\ pc = "idle" /\ Len(out) = 1)
          => out = <<3>>

\* the value of one map was itself replaced by another map
C3_Witness ==
    kui_map_set_list = ScenarioRecursive /\ pc = "idle" /\ out = <<3>>

\* C4: every call of kui_getkey returns.
C4_GetKeyReturns == (pc = "findchar") ~> (pc = "idle")

Positive(s) == SelectSeq(s, LAMBDA x : x > 0)

RECURSIVE Occurs(_, _)
Occurs(k, t) == Len(k) <= Len(t) /\ (IsPrefix(k, t) \/ Occurs(k, Tail(t)))

\* no key of any map set occurs in the tokens the source delivered
NoKeyInInput ==
    \A i \in 1..Len(kui_map_set_list) : \A j \in 1..Len(kui_map_set_list[i]) :
        ~Occurs(kui_map_set_list[i][j].literal_key, Positive(reads))

\* C5: while no map matches the input, the tokens returned so far followed
\* by the pushback buffer are the tokens read from the source so far.
C5_StreamOrder ==
    (pc = "idle" /\ NoKeyInInput) => Positive(out) \o buffer = Positive(reads)

\* C6: a pass that found no map returns bufmax[0], which is the first token
\* the pass consumed whenever it consumed one, and leaves bufmax[1..position]
\* in order at the head of the buffer, ahead of what the buffer held.
C6_NoMatchPass ==
    (PassDone /\ ~was_map_found) =>
        /\ pc = "idle"
        /\ Len(bufmax) = position + 1
        /\ position >= 0 => Last(out) = bufmax[1]
        /\ buffer = SubSeq(bufmax, 2, Len(bufmax)) \o rest

\* a pass without a match gave back a token it had read ahead, in front of
\* a token that was still buffered
C6_Witness ==
    PassDone /\ ~was_map_found /\ Len(bufmax) > 1 /\ Len(rest) > 0

ScenarioBuffer ==
    << <<M(<<1, 2>>, <<11, 12, 13>>), M(<<1, 2, 3, 4, 6>>, <<14>>),
         M(<<15>>, <<1, 2, 3, 4, 5, 6, 7, 8>>)>> >>

\* C7: after a pass that found a map with a key of length K the buffer is
\* the map's value, then bufmax[K..position], then what the pass left in the
\* buffer; with ab -> xyz and abcdf, a buffer abcdefgh becomes xyzcdefgh.
C7_MatchPass ==
    /\ (PassDone /\ was_map_found) =>
          buffer = the_map_found.literal_value
                     \o SubSeq(bufmax, Len(the_map_found.literal_key) + 1,
                               Len(bufmax))
                     \o rest
    /\ (PassDone /\ kui_map_set_list = ScenarioBuffer
        /\ bufmax \o rest = <<1, 2, 3, 4, 5, 6, 7, 8>>)
          => buffer = <<11, 12, 13, 3, 4, 5, 6, 7, 8>>

\* the pass of the example: ab matched, cde read ahead, fgh left
C7_Witness ==
    /\ PassDone /\ was_map_found /\ kui_map_set_list = ScenarioBuffer
    /\ bufmax = <<1, 2, 3, 4, 5>> /\ rest = <<6, 7, 8>>

FoundSets == {i \in 1..Len(ms_state) : ms_state[i].map_state = "FOUND"}

ScenarioOverride == << <<M(<<1>>, <<21>>)>>, <<M(<<1>>, <<22>>)>> >>

\* C8: when map sets end a pass in FOUND, the map applied is the one at the
\* cursor of the last of them in the context's order; with a -> X in map set
\* A and a -> Y in map set B added later, input a gives Y.
C8_LastFoundWins ==
    /\ PassDone =>
          /\ was_map_found = (FoundSets # {})
          /\ FoundSets # {} =>
                LET i == CHOOSE i \in FoundSets : \A j \in FoundSets : j <= i
                IN  the_map_found = kui_map_set_list[i][ms_state[i].map_iter]
    /\ (kui_map_set_list = ScenarioOverride /\ pc = "idle" /\ Len(out) = 1)
          => out = <<22>>

\* two map sets ended a pass in FOUND with different maps
C8_Witness ==
    /\ PassDone /\ Cardinality(FoundSets) = 2
    /\ kui_map_set_list[1][ms_state[1].map_iter]
          # kui_map_set_list[2][ms_state[2].map_iter]

\* C9: with non-empty map sets and tokens from the source, a pass never
\* fails in kui_update_each_list: kui_getkey returns no error because a map
\* set had reached FOUND while another was still looking.
C9_LockstepNoError ==
    (pass_end = "error" /\ Last(bufmax) > 0)
        => \E i \in 1..Len(kui_map_set_list) : Len(kui_map_set_list[i]) = 0

\* C10: with one map set that holds no map, kui_getkey returns the token
\* the source delivered.
C10_EmptyMapSet ==
    (kui_map_set_list = << <<>> >> /\ pc = "idle" /\ Len(out) > 0
     /\ Last(reads) > 0) => Last(out) = Last(reads)

\* C11: a pass never stores a token it consumed outside the BufmaxSize
\* entries of bufmax: the index of the last token stored stays below
\* BufmaxSize, and the process is not stopped by such a store.
C11_TokensWithinBufmax == position < BufmaxSize /\ pc # "crashed"

\* C12: kui_cangetkey returns 1 exactly when the buffer holds a token and 0
\* otherwise; the call reads nothing from the source and leaves the buffer,
\* the map sets and their matcher state as they were.
C12_CanGetKey ==
    [][(pc = "idle" /\ pc' = "idle") =>
          /\ cangetkey' = <<IF Len(buffer) > 0 THEN 1 ELSE 0>>
          /\ UNCHANGED <<buffer, src, reads, kui_map_set_list, ms_state>>]_vars

\* kui_cangetkey found tokens a pass had put back
C12_Witness == pc = "idle" /\ cangetkey = <<1>> /\ Len(buffer) > 1

\* the map_list of the map set the calls of ms_log were made on
MapList == kui_map_set_list[1]

\* the map_list as call i of ms_log left it
After(i) == IF i = Len(ms_log) THEN MapList ELSE ms_log[i + 1].before

MapsOf(list) == {list[i] : i \in 1..Len(list)}
KeysOf(list) == {list[i].literal_key : i \in 1..Len(list)}

\* C13: after any sequence of kui_ms_register_map and kui_ms_deregister_map
\* calls the map_list is strictly increasing by literal_key under intcmp.
C13_MapListSorted == IsSortedList(MapList)

\* a map was registered in front of the maps of the list, and a later
\* deregistration removed a map
C13_Witness ==
    \E i, j \in 1..Len(ms_log) :
        /\ i < j
        /\ ms_log[i].op = "register" /\ ms_log[i].before # <<>>
        /\ intcmp(ms_log[i].key, ms_log[i].before[1].literal_key) < 0
        /\ ms_log[j].op = "deregister" /\ ms_log[j].ret = <<0>>

\* call i and call i + 1 registered the same key
RegisteredTwice(i) ==
    /\ ms_log[i].op = "register" /\ ms_log[i + 1].op = "register"
    /\ ms_log[i].key = ms_log[i + 1].key

\* C14: after register(k, v1) followed by register(k, v2) the map set holds
\* exactly one map with key k, its value is v2, and the maps with other keys
\* are the ones the map set held before.
C14_RegisterReplaces ==
    \A i \in 1..Len(ms_log) - 1 :
        RegisteredTwice(i) =>
            LET k == ms_log[i].key
                list == After(i + 1)
            IN  /\ Cardinality({j \in 1..Len(list) : list[j].literal_key = k}) = 1
                /\ M(k, ms_log[i + 1].value) \in MapsOf(list)
                /\ {m \in MapsOf(list) : m.literal_key # k}
                      = {m \in MapsOf(ms_log[i].before) : m.literal_key # k}
                /\ Len(list) = Cardinality(MapsOf(list))

\* a key was registered again with another value, among other maps
C14_Witness ==
    /\ Len(ms_log) = 3
    /\ RegisteredTwice(2)
    /\ ms_log[2].value # ms_log[3].value
    /\ ms_log[2].before # <<>>
    /\ ms_log[2].key \notin KeysOf(ms_log[2].before)

\* C15: for a key k the map set does not hold, register(k, v) followed by
\* deregister(k) returns 0 from the deregistration and leaves the map_list
\* as it was before the registration, wherever k went in the list.
C15_RegisterDeregister ==
    \A i \in 1..Len(ms_log) - 1 :
        (/\ ms_log[i].op = "register" /\ ms_log[i + 1].op = "deregister"
         /\ ms_log[i].key = ms_log[i + 1].key
         /\ ms_log[i].key \notin KeysOf(ms_log[i].before))
        => /\ ms_log[i + 1].ret = <<0>>
           /\ After(i + 1) = ms_log[i].before

\* C16: kui_ms_deregister_map(k) returns -2 exactly when no map with key k
\* is registered, and then leaves the list alone; otherwise it removes that
\* map and no other and returns 0.
C16_DeregisterResult ==
    \A i \in 1..Len(ms_log) :
        ms_log[i].op = "deregister" =>
            LET k == ms_log[i].key
                before == ms_log[i].before
            IN  IF k \notin KeysOf(before)
                THEN ms_log[i].ret = <<-2>> /\ After(i) = before
                ELSE /\ ms_log[i].ret = <<0>>
                     /\ MapsOf(After(i)) = {m \in MapsOf(before) : m.literal_key # k}
                     /\ Len(After(i)) = Len(before) - 1

\* no map of normal_keys has one of the tokens in its key
NoUserMacroOn(tokens) ==
    \A i \in 1..Len(kui_map_set_list) : \A j \in 1..Len(kui_map_set_list[i]) :
        \A n \in 1..Len(kui_map_set_list[i][j].literal_key) :
            kui_map_set_list[i][j].literal_key[n] \notin tokens

\* C17: when ESC [ A arrive at a manager whose terminal_keys maps them to
\* <UP>, and normal_keys has no macro on these tokens, kui_manager_getkey
\* returns <UP> and returns none of the three bytes.
C17_TerminalComposition ==
    (/\ pc = "idle"
     /\ reads = <<ESC, LBRACKET, UPPER_A>>
     /\ NoUserMacroOn({ESC, LBRACKET, UPPER_A, CGDB_KEY_UP}))
    => out = <<CGDB_KEY_UP>>

\* the three bytes were read, <UP> came out, with a macro on another token
C17_Witness ==
    /\ pc = "idle"
    /\ reads = <<ESC, LBRACKET, UPPER_A>>
    /\ kui_map_set_list = << <<M(<<LOWER_X>>, <<CGDB_KEY_UP>>)>> >>
    /\ out = <<CGDB_KEY_UP>>

\* the substitutions the reference tokenizer makes before it gives up
MaxRescans == 8

\* the reference tokenizer: at each position the registered key that is a
\* prefix of the remaining input is replaced by its value and the result is
\* scanned again; without such a key the first token is emitted
RECURSIVE RefTokenizer(_, _, _)
RefTokenizer(list, input, rescans) ==
    IF input = <<>> \/ rescans = 0 THEN <<>>
    ELSE LET hits == {i \in 1..Len(list) : IsPrefix(list[i].literal_key, input)}
         IN  IF hits # {}
             THEN LET m == list[CHOOSE i \in hits : TRUE]
                  IN  RefTokenizer(list,
                          m.literal_value
                            \o SubSeq(input, Len(m.literal_key) + 1, Len(input)),
                          rescans - 1)
             ELSE <<Head(input)>> \o RefTokenizer(list, Tail(input), rescans)

\* no key of the list is a prefix of another
PrefixFree(list) ==
    \A i, j \in 1..Len(list) :
        i # j => ~IsPrefix(list[i].literal_key, list[j].literal_key)

\* the source delivered its tokens without a pause or a failure in between
\* (reads of 0 only after the last token)
DeliveredAtOnce ==
    /\ \A i \in 1..Len(reads) : reads[i] >= 0
    /\ \A i \in 1..Len(reads) - 1 : reads[i] = 0 => reads[i + 1] = 0

\* C18: with one map set whose keys are prefix free and a stream delivered
\* without pauses, the tokens the calls of kui_getkey returned, once all
\* tokens read are used up, are the output of the reference tokenizer on the
\* tokens read.
C18_ReferenceTokenizer ==
    (/\ pc = "idle" /\ buffer = <<>>
     /\ OneMapSet /\ PrefixFree(kui_map_set_list[1])
     /\ DeliveredAtOnce)
    => SelectSeq(out, LAMBDA x : x # 0)
          = RefTokenizer(kui_map_set_list[1], Positive(reads), MaxRescans)

\* C19: when the callback returns a negative value, the kui_getkey that
\* called it returns this value, with or without map sets, and does not call
\* the callback again: the call is not back at kui_findchar after it.
C19_SourceErrorVerbatim ==
    /\ (pc = "idle" /\ reads # <<>> /\ Last(reads) < 0)
          => Last(out) = Last(reads)
    /\ ~(pc \in {"findchar", "restart"} /\ bufmax # <<>> /\ Last(bufmax) < 0)

\* C20: when a pass has ended and kui_ms_finalize_state has run on every
\* map set, the state of each map set is FOUND or NOT_FOUND, not
\* STILL_LOOKING, also when the pass ended on a read without data.
C20_FinalizedStates ==
    PassDone =>
        \A i \in 1..Len(ms_state) :
            kui_ms_get_state(ms_state[i]) \in {"FOUND", "NOT_FOUND"}

\* C20 as amended: after the finalize of a pass a map set is FOUND exactly
\* when it latched a match in the pass, and otherwise NOT_FOUND, or
\* STILL_LOOKING only when the pass ended on a read without data.
C20_FinalizedStatesAmended ==
    PassDone =>
        \A i \in 1..Len(ms_state) :
            /\ (kui_ms_get_state(ms_state[i]) = "FOUND") = ms_state[i].is_found
            /\ \/ kui_ms_get_state(ms_state[i]) \in {"FOUND", "NOT_FOUND"}
               \/ kui_ms_get_state(ms_state[i]) = "STILL_LOOKING" /\ timed_out

\* a pass ran out of data while its map set was matching a longer key
C20_Witness ==
    /\ PassDone /\ timed_out /\ position >= 1 /\ OneMapSet
    /\ kui_ms_get_state(ms_state[1]) = "STILL_LOOKING"

\* every map set has been offered the token stored at position: the turn of
\* the loop went through, or the only map set refused a token of the source
UpdateCalled ==
    /\ position >= 0
    /\ \/ pass_end = "running" /\ pc \in {"findchar", "finalize"}
       \/ pass_end = "error" /\ OneMapSet /\ Last(bufmax) > 0

\* the cursor of map set i is at a map whose key starts with the tokens
\* consumed in the pass
CursorAgrees(i) ==
    /\ ms_state[i].map_iter \in 1..Len(kui_map_set_list[i])
    /\ IsPrefix(bufmax, kui_map_set_list[i][ms_state[i].map_iter].literal_key)

\* C21: within a pass, after an update with the token at position a map set
\* that is in STILL_LOOKING has its cursor at a map of the list, not at the
\* end of the list, and the key of that map agrees with the tokens consumed
\* in the pass on the positions 0..position.
C21_CursorAgrees ==
    UpdateCalled =>
        \A i \in 1..Len(ms_state) :
            ms_state[i].map_state = "STILL_LOOKING" => CursorAgrees(i)

\* the same for map sets that hold a map
C21_NonEmptyCursorAgrees ==
    UpdateCalled =>
        \A i \in 1..Len(ms_state) :
            (ms_state[i].map_state = "STILL_LOOKING"
             /\ Len(kui_map_set_list[i]) > 0) => CursorAgrees(i)

\* map set i goes to FOUND in this step
BecomesFound(i) ==
    /\ ms_state[i].map_state # "FOUND"
    /\ ms_state'[i].map_state = "FOUND"

\* the length of the key of the map at the cursor of map set i after the step
FoundKeyLen(i) == Len(kui_map_set_list'[i][ms_state'[i].map_iter].literal_key)

\* C22: whenever a map set goes to FOUND, by update or by finalize, its
\* cursor equals the latched cursor and the key of the map at the cursor has
\* exactly position + 1 tokens, position being the index of the last token
\* consumed in the pass.
C22_FoundAtPosition ==
    [][\A i \in 1..Len(ms_state) :
          BecomesFound(i) =>
              /\ ms_state'[i].map_iter = ms_state'[i].map_iter_found
              /\ FoundKeyLen(i) = position' + 1]_vars

\* C22 amended: whenever a map set goes to FOUND its cursor equals the
\* latched cursor; the key of the map at the cursor has exactly position + 1
\* tokens when update sets FOUND and at most position + 1 tokens when
\* finalize does.
C22_FoundAtPositionAmended ==
    [][\A i \in 1..Len(ms_state) :
          BecomesFound(i) =>
              /\ ms_state'[i].map_iter = ms_state'[i].map_iter_found
              /\ pc = "findchar" => FoundKeyLen(i) = position' + 1
              /\ pc = "finalize" => FoundKeyLen(i) <= position' + 1
              /\ pc \in {"findchar", "finalize"}]_vars

\* finalize has set a map set to FOUND whose match latched before the last
\* token of the pass was consumed
C22_Witness ==
    /\ PassDone
    /\ \E i \in 1..Len(ms_state) :
          /\ ms_state[i].map_state = "FOUND"
          /\ ms_state[i].map_iter = ms_state[i].map_iter_found
          /\ Len(kui_map_set_list[i][ms_state[i].map_iter].literal_key)
                 < position + 1

\* the only map set has been updated with the last token of the pass, and
\* the tokens consumed in the pass are a registered key that no other
\* registered key extends
KeyComplete ==
    /\ OneMapSet
    /\ pass_end = "running"
    /\ pc \in {"findchar", "finalize"}
    /\ position >= 0
    /\ \E i \in 1..Len(kui_map_set_list[1]) :
          kui_map_set_list[1][i].literal_key = bufmax
    /\ \A i \in 1..Len(kui_map_set_list[1]) :
          IsPrefix(bufmax, kui_map_set_list[1][i].literal_key)
              => kui_map_set_list[1][i].literal_key = bufmax

\* C23: with one map set, once the tokens consumed in a pass equal a
\* registered key that is not a proper prefix of another registered key, the
\* update with the last of them sets the map set to FOUND and the loop of
\* the pass ends: the next step is the end of the pass, which takes no token
\* from the buffer and does not call the source.
C23_CompleteKeyEndsPass ==
    [][/\ KeyComplete' =>
              /\ ms_state'[1].map_state = "FOUND"
              /\ pc' = "finalize"
       /\ KeyComplete =>
              /\ pass_end' = "done"
              /\ position' = position
              /\ rest' = buffer
              /\ reads' = reads
              /\ src' = src]_vars

\* a pass ended at a complete key while the buffer held a further token
C23_Witness ==
    /\ PassDone
    /\ OneMapSet
    /\ ms_state[1].map_state = "FOUND"
    /\ kui_map_set_list[1][ms_state[1].map_iter].literal_key = bufmax
    /\ Len(rest) > 0

\* C24: when kui_getkey returns an error because the read of the source
\* failed after the pass had consumed tokens, the tokens consumed in the
\* pass are at the head of the buffer, in order: the error loses no token.
C24_ErrorKeepsTokens ==
    (pass_end = "error" /\ pc = "idle" /\ Len(bufmax) > 1 /\ Last(bufmax) < 0)
        => IsPrefix(SubSeq(bufmax, 1, Len(bufmax) - 1), buffer)

\* kui_findchar of normal_keys is about to call kui_callback
CallbackCalled == pc = "findchar" /\ Len(buffer) = 0

\* the buffer of terminal_keys holds a token, or a byte is ready
MayGetKey == Len(term_buffer) > 0 \/ SourceHead(src) # 0

\* the call r of kui_callback returned 0, left the buffer of terminal_keys
\* alone and took no byte: at most the wait for a byte is over
NothingConsumed(r) ==
    /\ r.key = 0
    /\ r.buffer = term_buffer
    /\ \/ r.src = src
       \/ Len(src) > 0 /\ Head(src) = {0} /\ r.src = Tail(src)

\* the tokens buffered in terminal_keys are the beginning of the key of a
\* terminal mapping
BufferBeginsKey ==
    \E i \in 1..Len(TerminalMappings[1]) :
        /\ IsPrefix(term_buffer, TerminalMappings[1][i].literal_key)
        /\ term_buffer # TerminalMappings[1][i].literal_key

\* the reads rd of the source delivered no byte
NoByte(rd) == \A j \in 1..Len(rd) : rd[j] = 0

\* C25: kui_callback calls kui_getkey on terminal_keys only when the buffer
\* of terminal_keys holds a token or io_data_ready reports a byte, and
\* otherwise returns 0 and consumes nothing; a call made while
\* terminal_keys holds buffered tokens takes no byte from the source.
C25_BufferedBeforeBytes ==
    CallbackCalled =>
        \A uninit \in Indeterminate :
            /\ ~MayGetKey => NothingConsumed(kui_callback(term_buffer, src, uninit))
            /\ Len(term_buffer) > 0
                   => NoByte(kui_callback(term_buffer, src, uninit).reads)

\* C25 amended: as C25, but a call made while terminal_keys holds buffered
\* tokens returns a token, and asks the source for a byte only when the
\* buffered tokens are the beginning of the key of a terminal mapping.
C25_BufferedBeforeBytesAmended ==
    CallbackCalled =>
        \A uninit \in Indeterminate :
            /\ ~MayGetKey => NothingConsumed(kui_callback(term_buffer, src, uninit))
            /\ Len(term_buffer) > 0
                   => /\ kui_callback(term_buffer, src, uninit).key # 0
                      /\ kui_callback(term_buffer, src, uninit).reads # <<>>
                             => BufferBeginsKey

\* kui_callback is called while terminal_keys holds a token that begins a
\* terminal mapping, and the call reads on from the source
C25_Witness ==
    /\ CallbackCalled
    /\ Len(term_buffer) > 0
    /\ BufferBeginsKey
    /\ kui_callback(term_buffer, src, 0).reads # <<>>

\* the code within a call of kui_getkey keeps running; calls are up to the
\* caller
FairSpec == Spec /\ WF_vars(Restart \/ FindkeyLoop \/ FindkeyEnd)

====
